---------------------------- MODULE Spec2Model ----------------------------
(***************************************************************************)
(* A model of superdesk/factory/app.py: the application factory get_app    *)
(* (module installation and the resource catalog merge), and the methods   *)
(* SuperdeskEve.item_scope and SuperdeskEve.init_indexes.                  *)
(*                                                                         *)
(*   Spec       the factory: a process calling get_app one or more times   *)
(*   SpecScope  calls of SuperdeskEve.item_scope on an application         *)
(*   SpecIdx    one call of SuperdeskEve.init_indexes, index by index      *)
(***************************************************************************)
EXTENDS Naturals, Sequences, FiniteSets, TLC

\* ------------------------------------------------------------------ bounds

\* Longest CORE_APPS / INSTALLED_APPS list of a configuration.
MaxApps == 2

\* Number of get_app calls made in one process.
MaxAssemblies == 2

\* ------------------------------------------------------- values of the model

\* Names of feature modules a configuration may list.
Modules == {"m1", "m2"}

\* Names of resources in the factory's runs.
Resources == {"R", "S"}

\* A map with no keys (an empty dict).
EmptyMap == [k \in {} |-> 0]

\* All dicts with keys among K and values among V.
PartialMaps(K, V) == UNION {[S -> V] : S \in SUBSET K}

\* All lists over S of at most n elements.
SeqsUpTo(S, n) == UNION {[1..k -> S] : k \in 0..n}

\* A resource definition: its schema, its datasource projection and its
\* mongo_indexes__init entry.
ResourceDef(schema, projection, indexes) ==
    [schema |-> schema, projection |-> projection, mongo_indexes__init |-> indexes]

\* The two definitions a resource may carry in the factory's runs.
DefA == ResourceDef([a |-> 1], EmptyMap, EmptyMap)
DefB == ResourceDef([b |-> 1], EmptyMap, EmptyMap)
Defs == {DefA, DefB}

VARIABLES
    pc,              \* position of the running operation
    CORE_APPS,       \* app.config["CORE_APPS"]
    INSTALLED_APPS,  \* app.config["INSTALLED_APPS"]
    settings_DOMAIN, \* the DOMAIN setting of the resolved configuration
    has_init_app,    \* the modules that define init_app
    phase,           \* which of the two install loops runs: "core" or "ext"
    idx,             \* position of that loop in its list
    installed,       \* the set `installed` of get_app
    domain,          \* app.config["DOMAIN"]
    superdesk_DOMAIN,\* the global catalog superdesk.DOMAIN
    result,          \* how the last call ended and what it raised
    \* history of the current get_app call
    calls,           \* module -> number of install_app calls
    hookCount,       \* module -> number of init_app calls
    hookDone,        \* modules whose init_app returned
    installOrder,    \* modules in the order they were added to `installed`
    domainBefore,    \* app.config["DOMAIN"] when the last operation began its writes
    merged,          \* the catalog merge has run
    thrown,          \* the exception a module raised
    \* history of the process
    assemblies,      \* number of get_app calls so far
    lifetimeHooks,   \* module -> number of init_app calls in the process
    everInstalled,   \* every module a get_app call of the process installed
    \* SuperdeskEve.item_scope
    config_item_scope, \* app.config["item_scope"]
    scope_args,      \* the arguments of the last item_scope call
    scopeCalls,      \* number of item_scope calls so far
    \* SuperdeskEve.init_indexes
    ignore_duplicate_keys, \* the argument of the call
    idx_pos,         \* position of the loops in the declared indexes
    requests,        \* the create_index calls made, in order
    outcomes,        \* how each of them ended
    log,             \* what the logger was given, in order
    \* get_locale and the error handlers, per request
    g_user,          \* flask.g.user of the request
    DEFAULT_LANGUAGE,\* app.config["DEFAULT_LANGUAGE"]
    error,           \* the error an error handler is given
    locale,          \* what get_locale returned or raised
    response,        \* the (body, status) an error handler sent
    \* the configuration of get_app and get_media_storage_class
    base_defaults,   \* the attributes of superdesk.default_settings
    config_object,   \* the argument config_object of get_app
    config,          \* the argument config of get_app
    app_config,      \* app_config once resolved
    MEDIA_STORAGE_PROVIDER, \* app_config["MEDIA_STORAGE_PROVIDER"]
    use_provider_config,    \* the argument of get_media_storage_class
    media_storage,   \* what get_media_storage_class returned or raised
    stages           \* the steps of the running get_app call, in the order taken

factoryVars ==
    <<pc, CORE_APPS, INSTALLED_APPS, settings_DOMAIN, has_init_app, phase, idx, installed, domain,
      superdesk_DOMAIN, result, calls, hookCount, hookDone, installOrder,
      domainBefore, merged, thrown, assemblies, lifetimeHooks, everInstalled,
      stages>>

\* The settings a get_app call reads.
appSettings == <<CORE_APPS, INSTALLED_APPS, settings_DOMAIN, has_init_app>>

\* What only get_app reads and writes.
installVars ==
    <<phase, idx, installed, superdesk_DOMAIN, calls, hookCount, hookDone,
      installOrder, merged, thrown, assemblies, lifetimeHooks, everInstalled,
      stages>>

scopeVars == <<config_item_scope, scope_args, scopeCalls>>

indexVars == <<ignore_duplicate_keys, idx_pos, requests, outcomes, log>>

requestVars == <<g_user, DEFAULT_LANGUAGE, error, locale, response>>

configVars ==
    <<base_defaults, config_object, config, app_config, MEDIA_STORAGE_PROVIDER,
      use_provider_config, media_storage>>

\* What get_app leaves alone.
notFactory == <<scopeVars, indexVars, requestVars, configVars>>

\* What item_scope leaves alone.
notScope == <<appSettings, installVars, indexVars, requestVars, configVars>>

\* What init_indexes leaves alone.
notIndexes ==
    <<appSettings, installVars, scopeVars, domainBefore, requestVars, configVars>>

\* What the request handlers leave alone, and what the configuration leaves alone.
notRequest == <<factoryVars, scopeVars, indexVars, configVars>>
notConfig == <<factoryVars, scopeVars, indexVars, requestVars>>

vars == <<factoryVars, scopeVars, indexVars, requestVars, configVars>>

NoCalls == [m \in Modules |-> 0]

\* ------------------------------------------------------------ the factory

\* The steps get_app takes before the loops over the modules, in the order of
\* its statements, with the error handlers ahead of the storage and the locale.
get_app_stages_handlers_first == <<"config", "error_handlers", "media_storage", "locale">>

\* The steps get_app takes before the loops over the modules, in the order of
\* its statements: the configuration, the media storage class, the locale
\* selector of Babel, the error handlers.
get_app_stages == <<"config", "media_storage", "locale", "error_handlers">>

\* A later step is noted when it is first taken.
stage_after(done, stage) ==
    IF \E i \in 1..Len(done) : done[i] = stage THEN done ELSE Append(done, stage)

\* CurList with the two loops in the wrong order: INSTALLED_APPS first.
CurList_extension_first == IF phase = "core" THEN INSTALLED_APPS ELSE CORE_APPS

\* The list the running loop iterates and the module it is at.
CurList == IF phase = "core" THEN CORE_APPS ELSE INSTALLED_APPS
HasCur == idx <= Len(CurList)
Cur == CurList[idx]

\* Propagate with the exception caught and logged around the module: the loop
\* goes on.
Propagate_swallowed(exc) ==
    /\ pc' = "loop"
    /\ thrown' = exc
    /\ result' = result

\* Python raises out of get_app: nothing catches between install_app and the caller.
Propagate(exc) ==
    /\ pc' = "raised"
    /\ thrown' = exc
    /\ result' = [kind |-> "raised", exc |-> exc]

\* get_app with `installed` kept at module level: the set of the previous call
\* is still there.
get_app_keeps_installed ==
    /\ pc \in {"idle", "returned", "raised"}
    /\ assemblies < MaxAssemblies
    /\ assemblies' = assemblies + 1
    /\ domain' = settings_DOMAIN
    /\ installed' = installed
    /\ phase' = "core"
    /\ idx' = 1
    /\ pc' = "loop"
    /\ result' = [kind |-> "running", exc |-> "none"]
    /\ calls' = NoCalls
    /\ hookCount' = NoCalls
    /\ hookDone' = {}
    /\ installOrder' = <<>>
    /\ domainBefore' = EmptyMap
    /\ merged' = FALSE
    /\ thrown' = "none"
    /\ UNCHANGED <<appSettings, superdesk_DOMAIN, lifetimeHooks, everInstalled>>
    /\ stages' = get_app_stages
    /\ UNCHANGED notFactory

\* get_app up to `installed = set()`: a configuration is resolved, the
\* application is built and the install loops are about to start.
get_app ==
    /\ pc \in {"idle", "returned", "raised"}
    /\ assemblies < MaxAssemblies
    /\ assemblies' = assemblies + 1
    /\ domain' = settings_DOMAIN
    /\ installed' = {}
    /\ phase' = "core"
    /\ idx' = 1
    /\ pc' = "loop"
    /\ result' = [kind |-> "running", exc |-> "none"]
    /\ calls' = NoCalls
    /\ hookCount' = NoCalls
    /\ hookDone' = {}
    /\ installOrder' = <<>>
    /\ domainBefore' = EmptyMap
    /\ merged' = FALSE
    /\ thrown' = "none"
    /\ UNCHANGED <<appSettings, superdesk_DOMAIN, lifetimeHooks, everInstalled>>
    /\ stages' = get_app_stages
    /\ UNCHANGED notFactory

\* install_app without the membership test: the module is imported and
\* initialised again.
install_app_reinstalls ==
    /\ pc = "loop" /\ HasCur
    /\ Cur \in installed
    /\ calls' = [calls EXCEPT ![Cur] = @ + 1]
    /\ installOrder' = Append(installOrder, Cur)
    /\ pc' = "import"
    /\ UNCHANGED <<appSettings, phase, idx, installed, domain, superdesk_DOMAIN,
                   result, hookCount, hookDone, domainBefore, merged, thrown,
                   assemblies, lifetimeHooks, everInstalled>>
    /\ stages' = stage_after(stages, "install_app")
    /\ UNCHANGED notFactory

\* install_app(module_name) with module_name already in `installed`: return.
install_app_return ==
    /\ pc = "loop" /\ HasCur
    /\ Cur \in installed
    /\ calls' = [calls EXCEPT ![Cur] = @ + 1]
    /\ idx' = idx + 1
    /\ UNCHANGED <<pc, appSettings, phase, installed,
                   domain, superdesk_DOMAIN, result, hookCount, hookDone,
                   installOrder, domainBefore, merged, thrown, assemblies,
                   lifetimeHooks, everInstalled>>
    /\ stages' = stage_after(stages, "install_app")
    /\ UNCHANGED notFactory

\* install_app without installed.add(module_name) ahead of the import.
install_app_add_without_record ==
    /\ pc = "loop" /\ HasCur
    /\ Cur \notin installed
    /\ calls' = [calls EXCEPT ![Cur] = @ + 1]
    /\ installOrder' = Append(installOrder, Cur)
    /\ pc' = "import"
    /\ UNCHANGED <<appSettings, phase, idx, domain, installed, everInstalled,
                   superdesk_DOMAIN, result, hookCount, hookDone, domainBefore,
                   merged, thrown, assemblies, lifetimeHooks>>
    /\ stages' = stage_after(stages, "install_app")
    /\ UNCHANGED notFactory

\* install_app(module_name) otherwise: installed.add(module_name), then the import.
install_app_add ==
    /\ pc = "loop" /\ HasCur
    /\ Cur \notin installed
    /\ calls' = [calls EXCEPT ![Cur] = @ + 1]
    /\ installed' = installed \cup {Cur}
    /\ installOrder' = Append(installOrder, Cur)
    /\ everInstalled' = everInstalled \cup {Cur}
    /\ pc' = "import"
    /\ UNCHANGED <<appSettings, phase, idx, domain,
                   superdesk_DOMAIN, result, hookCount, hookDone, domainBefore,
                   merged, thrown, assemblies, lifetimeHooks>>
    /\ stages' = stage_after(stages, "install_app")
    /\ UNCHANGED notFactory

\* importlib.import_module(module_name) returns; init_app is called when the
\* module has one, and install_app returns when it has none.
import_module ==
    /\ pc = "import"
    /\ IF Cur \in has_init_app
         THEN /\ pc' = "hook"
              /\ hookCount' = [hookCount EXCEPT ![Cur] = @ + 1]
              /\ lifetimeHooks' = [lifetimeHooks EXCEPT ![Cur] = @ + 1]
              /\ idx' = idx
         ELSE /\ pc' = "loop"
              /\ idx' = idx + 1
              /\ UNCHANGED <<hookCount, lifetimeHooks>>
    /\ UNCHANGED <<appSettings, phase, installed, domain,
                   superdesk_DOMAIN, result, calls, hookDone, installOrder,
                   domainBefore, merged, thrown, assemblies, everInstalled>>
    /\ UNCHANGED stages
    /\ UNCHANGED notFactory

\* importlib.import_module(module_name) raises.
import_module_raises ==
    /\ pc = "import"
    /\ Propagate("ImportError")
    /\ UNCHANGED <<appSettings, phase, idx, installed,
                   domain, superdesk_DOMAIN, calls, hookCount, hookDone,
                   installOrder, domainBefore, merged, assemblies, lifetimeHooks, everInstalled>>
    /\ UNCHANGED stages
    /\ UNCHANGED notFactory

\* app_module.init_app(app) returns; the hook may have registered a resource in
\* the global catalog.
init_app ==
    /\ pc = "hook"
    /\ \/ UNCHANGED superdesk_DOMAIN
       \/ \E r \in Resources, d \in Defs :
             superdesk_DOMAIN' = [k \in DOMAIN superdesk_DOMAIN \cup {r} |->
                                    IF k = r THEN d ELSE superdesk_DOMAIN[k]]
    /\ hookDone' = hookDone \cup {Cur}
    /\ idx' = idx + 1
    /\ pc' = "loop"
    /\ UNCHANGED <<appSettings, phase, installed, domain,
                   result, calls, hookCount, installOrder, domainBefore, merged,
                   thrown, assemblies, lifetimeHooks, everInstalled>>
    /\ UNCHANGED stages
    /\ UNCHANGED notFactory

\* app_module.init_app(app) raises.
init_app_raises ==
    /\ pc = "hook"
    /\ Propagate("HookError")
    /\ UNCHANGED <<appSettings, phase, idx, installed,
                   domain, superdesk_DOMAIN, calls, hookCount, hookDone,
                   installOrder, domainBefore, merged, assemblies, lifetimeHooks, everInstalled>>
    /\ UNCHANGED stages
    /\ UNCHANGED notFactory

\* The loop over CORE_APPS is exhausted: the loop over INSTALLED_APPS starts.
core_apps_done ==
    /\ pc = "loop" /\ phase = "core" /\ ~HasCur
    /\ phase' = "ext"
    /\ idx' = 1
    /\ UNCHANGED <<pc, appSettings, installed, domain,
                   superdesk_DOMAIN, result, calls, hookCount, hookDone,
                   installOrder, domainBefore, merged, thrown, assemblies,
                   lifetimeHooks, everInstalled>>
    /\ UNCHANGED stages
    /\ UNCHANGED notFactory

\* app.register_resource(resource, settings) as get_app uses it: the resource
\* enters app.config["DOMAIN"] under its name.
register_resource(dom, resource, settings) ==
    [k \in DOMAIN dom \cup {resource} |-> IF k = resource THEN settings ELSE dom[k]]

\* merge_loop without the `not in app.config["DOMAIN"]` test: every resource of
\* the catalog is registered.
RECURSIVE merge_loop_overwrites(_, _, _)
merge_loop_overwrites(dom, catalog, todo) ==
    IF todo = {} THEN dom
    ELSE LET resource == CHOOSE r \in todo : TRUE
         IN merge_loop_overwrites(register_resource(dom, resource, catalog[resource]),
                                  catalog, todo \ {resource})

\* The loop over superdesk.DOMAIN, with the resources in `todo` still to visit:
\* a resource of the catalog that is not in app.config["DOMAIN"] is registered.
RECURSIVE merge_loop(_, _, _)
merge_loop(dom, catalog, todo) ==
    IF todo = {} THEN dom
    ELSE LET resource == CHOOSE r \in todo : TRUE
         IN merge_loop(IF resource \notin DOMAIN dom
                         THEN register_resource(dom, resource, catalog[resource])
                         ELSE dom,
                       catalog, todo \ {resource})

\* The loop over superdesk.DOMAIN is not run.
merge_catalog_skipped(dom, catalog) == dom

\* The loop over superdesk.DOMAIN, from its first resource.
merge_catalog(dom, catalog) == merge_loop(dom, catalog, DOMAIN catalog)

\* The loop over INSTALLED_APPS is exhausted: the catalog merge runs and get_app
\* returns the application.
merge_and_return ==
    /\ pc = "loop" /\ phase = "ext" /\ ~HasCur
    /\ domainBefore' = domain
    /\ domain' = merge_catalog(domain, superdesk_DOMAIN)
    /\ merged' = TRUE
    /\ pc' = "returned"
    /\ result' = [kind |-> "returned", exc |-> "none"]
    /\ UNCHANGED <<appSettings, phase, idx, installed,
                   superdesk_DOMAIN, calls, hookCount, hookDone, installOrder,
                   thrown, assemblies, lifetimeHooks, everInstalled>>
    /\ stages' = stage_after(stages, "merge")
    /\ UNCHANGED notFactory

\* The variables of get_app before any call.
FactoryRest ==
    /\ phase = "core"
    /\ idx = 1
    /\ installed = {}
    /\ superdesk_DOMAIN = EmptyMap
    /\ result = [kind |-> "none", exc |-> "none"]
    /\ calls = NoCalls
    /\ hookCount = NoCalls
    /\ hookDone = {}
    /\ installOrder = <<>>
    /\ domainBefore = EmptyMap
    /\ merged = FALSE
    /\ thrown = "none"
    /\ assemblies = 0
    /\ lifetimeHooks = NoCalls
    /\ everInstalled = {}
    /\ stages = <<>>

\* ------------------------------------------------- the factory's properties

\* CORE_APPS followed by INSTALLED_APPS, and the place of the running loop in it.
Combined == CORE_APPS \o INSTALLED_APPS
Pos == IF phase = "core" THEN idx ELSE Len(CORE_APPS) + idx
Range(s) == {s[j] : j \in 1..Len(s)}

\* A list without the later occurrences of its elements.
RECURSIVE FirstOccurrences(_)
FirstOccurrences(s) ==
    IF s = <<>> THEN <<>>
    ELSE LET init == FirstOccurrences(SubSeq(s, 1, Len(s) - 1))
             last == s[Len(s)]
         IN IF last \in Range(init) THEN init ELSE Append(init, last)

IsPrefix(s, t) == Len(s) <= Len(t) /\ s = SubSeq(t, 1, Len(s))

\* A call of install_app with a name an earlier call of this assembly was given.
RepeatedCall == pc = "loop" /\ HasCur /\ calls[Cur] >= 1 /\ calls' # calls

\* C1: within one assembly, however often CORE_APPS and INSTALLED_APPS name a
\* module, the module is added to `installed` once and its init_app runs exactly
\* once (at most once at any moment, and once when get_app returns); a second or
\* later install_app call with the same name changes nothing: not `installed`,
\* not the hooks run, not the two DOMAIN maps.
C1_InstallOnce ==
    /\ [](\A m \in Modules :
            /\ hookCount[m] <= 1
            /\ (calls[m] >= 1 => m \in installed)
            /\ (pc = "returned" /\ calls[m] >= 1 /\ m \in has_init_app
                  => hookCount[m] = 1))
    /\ [](Len(installOrder) = Cardinality(installed)
            /\ Range(installOrder) = installed)
    /\ [][RepeatedCall =>
            /\ pc' = "loop"
            /\ UNCHANGED <<installed, installOrder, hookCount, hookDone, domain,
                           superdesk_DOMAIN, result>>]_vars

\* C1's case: get_app returned, a module named in both lists was given to
\* install_app at least twice and its hook ran once.
C1_Witness ==
    /\ pc = "returned"
    /\ \E m \in Range(CORE_APPS) \cap Range(INSTALLED_APPS) :
          /\ calls[m] >= 2
          /\ m \in has_init_app
          /\ hookCount[m] = 1

\* C2: modules are installed in the order of their first occurrence in
\* CORE_APPS + INSTALLED_APPS (so every module of CORE_APPS before any module
\* that only INSTALLED_APPS names, and each list in its order), and while a
\* module's init_app runs, the init_app of every module that occurs earlier in
\* CORE_APPS + INSTALLED_APPS has returned.
C2_InstallOrder ==
    /\ IsPrefix(installOrder, FirstOccurrences(Combined))
    /\ (pc = "returned" => installOrder = FirstOccurrences(Combined))
    /\ \A m \in installed :
          m \notin Range(CORE_APPS) => Range(CORE_APPS) \subseteq installed
    /\ (pc = "hook" =>
          \A j \in 1..(Pos - 1) :
             Combined[j] \in has_init_app => Combined[j] \in hookDone)

\* C2's case: the hook of a module that only INSTALLED_APPS names is running
\* after the hook of another module, named by CORE_APPS, has returned.
C2_Witness ==
    /\ pc = "hook"
    /\ phase = "ext"
    /\ Cur \notin Range(CORE_APPS)
    /\ \E m \in Range(CORE_APPS) : m # Cur /\ m \in hookDone

\* C3 as stated: over the get_app calls of one process a module's init_app runs
\* at most once, and `installed` never loses a member.
C3_ProcessWide ==
    /\ \A m \in Modules : lifetimeHooks[m] <= 1
    /\ everInstalled \subseteq installed

\* C3 as the code has it: `installed` is a local of get_app.  Each get_app call
\* starts with an empty set, the set only grows until that call ends, and a
\* module's init_app runs at most once per get_app call (so at most as many
\* times as get_app was called).
C3_PerAssembly ==
    /\ [](\A m \in Modules : hookCount[m] <= 1 /\ lifetimeHooks[m] <= assemblies)
    /\ [][assemblies' = assemblies => installed \subseteq installed']_vars
    /\ [][assemblies' # assemblies => installed' = {}]_vars

\* C3's case: a second get_app call in the process runs the hook of a module
\* whose hook the first call ran.
C3_Witness ==
    /\ assemblies = 2
    /\ \E m \in Modules : lifetimeHooks[m] = 2 /\ hookCount[m] = 1

\* C4: when a module's import or init_app raises, get_app raises that very
\* exception: the failing module is the last one installed, the catalog merge
\* has not run (app.config["DOMAIN"] is as configured) and no application is
\* returned.
C4_FailFast ==
    (thrown # "none" \/ result.kind = "raised") =>
        /\ pc = "raised"
        /\ result.exc = thrown /\ thrown # "none"
        /\ HasCur
        /\ installOrder # <<>> /\ installOrder[Len(installOrder)] = Cur
        /\ installOrder = FirstOccurrences(SubSeq(Combined, 1, Pos))
        /\ ~merged
        /\ domain = settings_DOMAIN

\* C4's case: the first module raised from init_app, another module follows it
\* in the lists and the catalog holds a resource the merge would have added.
C4_Witness ==
    /\ result.kind = "raised" /\ thrown = "HookError"
    /\ Pos < Len(Combined)
    /\ Combined[Pos + 1] \notin installed
    /\ DOMAIN superdesk_DOMAIN \ DOMAIN domain # {}

\* C5: the catalog merge leaves every resource that app.config["DOMAIN"] held
\* before it with the definition it had.
C5_NoClobber ==
    merged => \A r \in DOMAIN domainBefore :
                  r \in DOMAIN domain /\ domain[r] = domainBefore[r]

\* C5's case: the merge ran with a catalog that defines a configured resource
\* differently, and added another resource.
C5_Witness ==
    /\ merged
    /\ \E r \in DOMAIN domainBefore \cap DOMAIN superdesk_DOMAIN :
          superdesk_DOMAIN[r] # domainBefore[r]
    /\ DOMAIN domain # DOMAIN domainBefore

\* The place of a step among the steps taken, 0 when it has not been taken.
StagePos(stage) ==
    IF \E i \in 1..Len(stages) : stages[i] = stage
       THEN CHOOSE i \in 1..Len(stages) : stages[i] = stage
       ELSE 0
Before(a, b) == (StagePos(a) > 0 /\ StagePos(b) > 0) => StagePos(a) < StagePos(b)
Running == pc \in {"loop", "import", "hook", "returned", "raised"}

\* C17, as stated: the configuration is resolved first, then the storage class
\* is selected and the error handlers are attached, then the modules are
\* installed, and the locale selector is wired last, after the installation.
C17_LocaleLast ==
    /\ Before("config", "media_storage")
    /\ Before("config", "error_handlers")
    /\ Before("media_storage", "install_app")
    /\ Before("error_handlers", "install_app")
    /\ Before("install_app", "locale")

\* C17: get_app resolves the configuration first, then selects the storage
\* class, then wires the locale selector, then attaches the error handlers, then
\* installs the modules, and merges the catalog last: the locale selector is
\* wired before any module is installed.
C17_Order ==
    /\ Running => \A i \in 1..Len(get_app_stages) : StagePos(get_app_stages[i]) > 0
    /\ Before("config", "media_storage")
    /\ Before("media_storage", "locale")
    /\ Before("locale", "error_handlers")
    /\ Before("error_handlers", "install_app")
    /\ Before("install_app", "merge")
    /\ (installOrder # <<>> /\ Running) => StagePos("install_app") > 0
    /\ merged => StagePos("merge") = Len(stages)

\* A module is being installed: the locale selector is already wired.
C17_Witness ==
    /\ pc = "hook"
    /\ StagePos("locale") > 0
    /\ StagePos("install_app") > StagePos("locale")

\* C18: install_app records a module in `installed` before it imports it and
\* before it runs its hook: while the import or the hook of a module runs, the
\* module is in `installed`, so an install_app call with its name returns at
\* once and starts no hook.
C18_RecordedFirst ==
    /\ [](pc \in {"import", "hook"} => HasCur /\ Cur \in installed)
    /\ [][(pc' = "import" /\ pc # "import") => (Cur \notin installed /\ Cur \in installed')]_vars
    /\ [][(\E m \in Modules : hookCount'[m] > hookCount[m]) =>
              (pc = "import" /\ Cur \in installed)]_vars
    /\ [][((\E m \in Modules : calls'[m] > calls[m]) /\ Cur \in installed) =>
              (hookCount' = hookCount /\ pc' = "loop")]_vars

\* The hook of a module runs and the module is recorded.
C18_Witness ==
    /\ pc = "hook"
    /\ Cur \in installed
    /\ hookCount[Cur] = 1
    /\ Cur \notin hookDone

\* C19: the catalog merge runs only after every module of CORE_APPS and
\* INSTALLED_APPS is installed; when get_app returns every resource of the
\* catalog, those registered during a hook included, is in app.config["DOMAIN"],
\* and every resource that was not there before the merge has the catalog's
\* definition.
C19_MergeAfterInstall ==
    /\ merged => (pc = "returned" /\ Range(Combined) \subseteq installed)
    /\ pc = "returned" =>
          /\ merged
          /\ Range(Combined) \subseteq installed
          /\ \A m \in Range(Combined) \cap has_init_app : m \in hookDone
          /\ \A r \in DOMAIN superdesk_DOMAIN : r \in DOMAIN domain
          /\ \A r \in DOMAIN superdesk_DOMAIN \ DOMAIN domainBefore :
                 domain[r] = superdesk_DOMAIN[r]
          /\ \A r \in DOMAIN domain \ DOMAIN domainBefore : r \in DOMAIN superdesk_DOMAIN

\* get_app returned after a hook ran, and a resource of the catalog that the
\* configuration did not hold is in app.config["DOMAIN"].
C19_Witness ==
    /\ pc = "returned"
    /\ hookDone # {}
    /\ \E r \in DOMAIN superdesk_DOMAIN \ DOMAIN domainBefore :
           r \in DOMAIN domain /\ domain[r] = superdesk_DOMAIN[r]

\* ---------------------------------------------------- SuperdeskEve.item_scope

\* Number of item_scope calls on one application.
MaxScopeCalls == 2

\* The resources item_scope extends, in the order of its loop.
ScopeTargets == <<"archive", "archive_autosave", "published", "archived">>

\* app.config["VERSIONS"]: the suffix of a versioned resource's name.
VERSIONS == "_versions"

\* Every resource name item_scope may look up.
ScopeResources ==
    {ScopeTargets[i] : i \in 1..Len(ScopeTargets)}
        \cup {ScopeTargets[i] \o VERSIONS : i \in 1..Len(ScopeTargets)}

ScopeNames == {"s1", "s2"}
Fields == {"x", "y"}

\* The schema argument: None (the default) or a dict of field -> rule.
None == [isNone |-> TRUE, val |-> EmptyMap]
Some(schema) == [isNone |-> FALSE, val |-> schema]
SchemaArgs == {None} \cup {Some(m) : m \in PartialMaps(Fields, {"rule"})}

\* The definitions a resource has before item_scope: no field at all, or fields
\* h and x with x left out of the projection.
ScopeDefs ==
    {ResourceDef(EmptyMap, EmptyMap, EmptyMap),
     ResourceDef([h |-> "old", x |-> "old"], [h |-> 1, x |-> 0], EmptyMap)}

\* The applications item_scope is called on: any set of the resources, all with
\* the same definition.
ScopeDomains ==
    UNION {[S -> {d}] : S \in SUBSET ScopeResources, d \in ScopeDefs}

ScopeRest ==
    /\ config_item_scope = EmptyMap
    /\ scope_args = [name |-> "none", schema |-> None]
    /\ scopeCalls = 0

\* The variables of init_indexes before its call.
IndexRest ==
    /\ ignore_duplicate_keys = FALSE
    /\ idx_pos = 1
    /\ requests = <<>>
    /\ outcomes = <<>>
    /\ log = <<>>

\* The variables of a request before its handler runs.
RequestRest ==
    /\ g_user = [kind |-> "absent"]
    /\ DEFAULT_LANGUAGE = [isSet |-> FALSE, val |-> <<>>]
    /\ error = [kind |-> "none"]
    /\ locale = [kind |-> "none"]
    /\ response = [kind |-> "none"]

\* The variables of the configuration before it is resolved.
ConfigRest ==
    /\ base_defaults = EmptyMap
    /\ config_object = [kind |-> "None"]
    /\ config = [kind |-> "None"]
    /\ app_config = EmptyMap
    /\ MEDIA_STORAGE_PROVIDER = [kind |-> "unset"]
    /\ use_provider_config = TRUE
    /\ media_storage = [kind |-> "none"]

\* The variables of the other operations, at rest.
OthersRest == RequestRest /\ ConfigRest

\* dict.update and d[key] = value.
DictUpdate(d, other) ==
    [k \in DOMAIN d \cup DOMAIN other |-> IF k \in DOMAIN other THEN other[k] ELSE d[k]]
DictSet(d, key, value) ==
    [k \in DOMAIN d \cup {key} |-> IF k = key THEN value ELSE d[k]]

\* update_resource_schema without its assertion.
assert_removed(schema) == FALSE

\* `assert schema` of update_resource_schema fails: the schema is empty.
assert_schema_fails(schema) == schema = EmptyMap

\* item_scope without the `is not None` test: the loop always runs.
schema_test_dropped(arg) == TRUE

\* `if schema is not None`.
schema_is_not_None(arg) == ~arg.isNone

\* update_resource_schema without the loop that sets the projection.
update_resource_schema_no_projection(dom, resource, schema) ==
    [dom EXCEPT ![resource] =
        [schema |-> DictUpdate(dom[resource].schema, schema),
         projection |-> dom[resource].projection,
         mongo_indexes__init |-> dom[resource].mongo_indexes__init]]

\* The two writes of update_resource_schema on a resource of the domain.
update_resource_schema(dom, resource, schema) ==
    [dom EXCEPT ![resource] =
        [schema |-> DictUpdate(dom[resource].schema, schema),
         projection |-> DictUpdate(dom[resource].projection,
                                   [key \in DOMAIN schema |-> 1]),
         mongo_indexes__init |-> dom[resource].mongo_indexes__init]]

\* One call of update_resource_schema on a run [dom, exc] that may have raised
\* already: the assertion first, then the lookup app.config["DOMAIN"][resource].
update_step(run, resource, schema) ==
    IF run.exc # "none" THEN run
    ELSE IF assert_schema_fails(schema) THEN [run EXCEPT !.exc = "AssertionError"]
    ELSE IF resource \notin DOMAIN run.dom THEN [run EXCEPT !.exc = "KeyError"]
    ELSE [run EXCEPT !.dom = update_resource_schema(run.dom, resource, schema)]

\* The versioned resource is updated when it is in the domain.
update_versioned(run, versioned_resource, schema) ==
    IF run.exc = "none" /\ versioned_resource \in DOMAIN run.dom
       THEN update_step(run, versioned_resource, schema)
       ELSE run

\* The loop of item_scope over the targets from position i on.
RECURSIVE scope_loop(_, _, _)
scope_loop(run, schema, i) ==
    IF i > Len(ScopeTargets) THEN run
    ELSE scope_loop(update_versioned(update_step(run, ScopeTargets[i], schema),
                                     ScopeTargets[i] \o VERSIONS, schema),
                    schema, i + 1)

\* item_scope(name, schema): the scope is recorded, then the schema, when given,
\* is applied to the targets; an exception leaves the writes made before it.
item_scope(name, arg) ==
    /\ pc = "app"
    /\ scopeCalls < MaxScopeCalls
    /\ scopeCalls' = scopeCalls + 1
    /\ scope_args' = [name |-> name, schema |-> arg]
    /\ config_item_scope' = DictSet(config_item_scope, name, [schema |-> arg])
    /\ domainBefore' = domain
    /\ LET run == IF schema_is_not_None(arg)
                    THEN scope_loop([dom |-> domain, exc |-> "none"], arg.val, 1)
                    ELSE [dom |-> domain, exc |-> "none"]
       IN /\ domain' = run.dom
          /\ result' = [kind |-> IF run.exc = "none" THEN "returned" ELSE "raised",
                        exc |-> run.exc]
    /\ UNCHANGED <<pc, notScope>>

\* An assembled application, before any item_scope call.
InitScope ==
    /\ pc = "app"
    /\ CORE_APPS = <<>>
    /\ INSTALLED_APPS = <<>>
    /\ settings_DOMAIN = EmptyMap
    /\ has_init_app = {}
    /\ domain \in ScopeDomains
    /\ FactoryRest
    /\ ScopeRest
    /\ IndexRest
    /\ OthersRest

NextScope == \E name \in ScopeNames, arg \in SchemaArgs : item_scope(name, arg)

SpecScope == InitScope /\ [][NextScope]_vars

\* --------------------------------------------------- item_scope's properties

\* The last item_scope call and what it was given.
ScopeCalled == scopeCalls >= 1
GivenSchema == scope_args.schema.val
TargetSet == {ScopeTargets[i] : i \in 1..Len(ScopeTargets)}

\* Every field of the schema is in the resource's schema and is projected with 1.
HasFields(def, schema) ==
    \A f \in DOMAIN schema :
        /\ f \in DOMAIN def.schema
        /\ f \in DOMAIN def.projection
        /\ def.projection[f] = 1

\* C6: when item_scope(name, schema) with a non-empty schema returns, each of the
\* four targets has every field of the schema in its schema and, with marker 1,
\* in its projection; so has the versioned counterpart of a target when it was
\* in DOMAIN before the call; no resource is added to DOMAIN.
C6_ScopePropagates ==
    (/\ ScopeCalled
     /\ scope_args.schema # None
     /\ GivenSchema # EmptyMap
     /\ result.kind = "returned")
    => /\ DOMAIN domain = DOMAIN domainBefore
       /\ \A r \in TargetSet :
             /\ r \in DOMAIN domain
             /\ HasFields(domain[r], GivenSchema)
             /\ (r \o VERSIONS) \in DOMAIN domainBefore
                   => HasFields(domain[r \o VERSIONS], GivenSchema)

\* C6's case: a call with a two-field schema returned on a domain where one
\* target has a versioned counterpart and another has none, and a field that the
\* projection left out before is now projected.
C6_Witness ==
    /\ ScopeCalled
    /\ DOMAIN GivenSchema = Fields
    /\ result.kind = "returned"
    /\ "archive_versions" \in DOMAIN domain
    /\ "published_versions" \notin DOMAIN domain
    /\ domainBefore["archive_versions"].projection = [h |-> 1, x |-> 0]
    /\ domain["archive_versions"].projection["x"] = 1

\* C7: item_scope(name) without a schema returns, has the scope recorded under
\* app.config["item_scope"][name] and leaves DOMAIN as it was.
C7_MetadataOnly ==
    (ScopeCalled /\ scope_args.schema = None)
    => /\ result.kind = "returned"
       /\ scope_args.name \in DOMAIN config_item_scope
       /\ config_item_scope[scope_args.name] = [schema |-> None]
       /\ domain = domainBefore

\* C7's case: a call without a schema on a domain that holds the four targets,
\* after an earlier call that gave one.
C7_Witness ==
    /\ scopeCalls = 2
    /\ scope_args.schema = None
    /\ TargetSet \subseteq DOMAIN domain
    /\ \E n \in DOMAIN config_item_scope : config_item_scope[n].schema # None

\* C8: item_scope with a schema that is given but empty raises AssertionError and
\* leaves DOMAIN as it was.
C8_EmptySchemaAsserts ==
    (/\ ScopeCalled
     /\ scope_args.schema # None
     /\ GivenSchema = EmptyMap)
    => /\ result = [kind |-> "raised", exc |-> "AssertionError"]
       /\ domain = domainBefore

\* C8's case: a call with an empty schema on a domain that holds every target and
\* every versioned counterpart.
C8_Witness ==
    /\ ScopeCalled
    /\ scope_args.schema = Some(EmptyMap)
    /\ result.exc = "AssertionError"
    /\ DOMAIN domain = ScopeResources

\* -------------------------------------------------- SuperdeskEve.init_indexes

\* The resources of app.config["DOMAIN"] in the order the dict yields them, and
\* the index names of a mongo_indexes__init dict in the order it yields them.
IndexResources == <<"archive", "published", "users">>
IndexNames == <<"i1", "i2">>

\* A value of mongo_indexes__init: a bare list of keys, or a tuple of the list
\* and the index options.
BareKeys(keys) == [isTuple |-> FALSE, keys |-> keys, options |-> EmptyMap]
KeysAndOptions(keys, options) == [isTuple |-> TRUE, keys |-> keys, options |-> options]

\* The mongo_indexes__init a resource may declare: none (or an empty dict), one
\* bare list, a tuple whose options leave background out followed by a bare
\* list, a tuple whose options set background.
IndexDecls ==
    {EmptyMap,
     [i1 |-> BareKeys("k")],
     [i1 |-> KeysAndOptions("k", [unique |-> TRUE]), i2 |-> BareKeys("n")],
     [i2 |-> KeysAndOptions("k", [background |-> FALSE])]}

IndexDomains ==
    {[r \in {IndexResources[i] : i \in 1..Len(IndexResources)} |->
         ResourceDef(EmptyMap, EmptyMap, decl[r])] :
       decl \in [{IndexResources[i] : i \in 1..Len(IndexResources)} -> IndexDecls]}

\* The inner loop: the indexes of one resource's mongo_indexes__init, from
\* position j of the names on.
RECURSIVE resource_indexes(_, _, _)
resource_indexes(resource, mongo_indexes, j) ==
    IF j > Len(IndexNames) THEN <<>>
    ELSE (IF IndexNames[j] \in DOMAIN mongo_indexes
            THEN <<[resource |-> resource, name |-> IndexNames[j]]>>
            ELSE <<>>)
         \o resource_indexes(resource, mongo_indexes, j + 1)

\* The outer loop: the resources from position i on; a resource whose
\* mongo_indexes__init is missing or empty is skipped.
RECURSIVE declared_indexes(_, _)
declared_indexes(dom, i) ==
    IF i > Len(IndexResources) THEN <<>>
    ELSE LET resource == IndexResources[i]
             mongo_indexes == dom[resource].mongo_indexes__init
         IN (IF mongo_indexes = EmptyMap
               THEN <<>>
               ELSE resource_indexes(resource, mongo_indexes, 1))
            \o declared_indexes(dom, i + 1)

\* Every (resource, name) the two loops visit, in order, and the one they are at.
IndexPlan == declared_indexes(domain, 1)
HasIndex == idx_pos <= Len(IndexPlan)
CurIndex == IndexPlan[idx_pos]
CurValue == domain[CurIndex.resource].mongo_indexes__init[CurIndex.name]

\* dict.setdefault(key, default) on the options.
setdefault(options, key, default) ==
    IF key \in DOMAIN options THEN options ELSE DictSet(options, key, default)

\* The options of the tuple, or a new dict, as they are: no background is added.
index_options_without_default(value) == value.options

\* The options create_index is given: those of the tuple, or a new dict, with
\* background defaulted to True.
index_options(value) == setdefault(value.options, "background", TRUE)

\* The create_index call init_indexes makes for the index it is at.
CurRequest ==
    [resource |-> CurIndex.resource, name |-> CurIndex.name,
     list_of_keys |-> CurValue.keys, index_options |-> index_options(CurValue)]

\* A tuple's options dict is the one of the configuration: setdefault writes
\* into it.  A bare list gets a dict of its own.
domain_after_setdefault ==
    IF CurValue.isTuple
       THEN [domain EXCEPT
               ![CurIndex.resource].mongo_indexes__init[CurIndex.name].options =
                   index_options(CurValue)]
       ELSE domain

\* init_indexes(ignore_duplicate_keys) is called on the application.
init_indexes(ignore) ==
    /\ pc = "app"
    /\ pc' = "indexing"
    /\ ignore_duplicate_keys' = ignore
    /\ result' = [kind |-> "running", exc |-> "none"]
    /\ domainBefore' = domain
    /\ UNCHANGED <<domain, idx_pos, requests, outcomes, log>>
    /\ UNCHANGED <<appSettings, installVars, scopeVars, requestVars, configVars>>

\* What one iteration does in every case: the create_index call is made.
Request(outcome) ==
    /\ pc = "indexing" /\ HasIndex
    /\ requests' = Append(requests, CurRequest)
    /\ outcomes' = Append(outcomes, outcome)
    /\ domain' = domain_after_setdefault
    /\ UNCHANGED <<ignore_duplicate_keys, notIndexes>>

\* create_index returns.
create_index ==
    /\ Request("ok")
    /\ idx_pos' = idx_pos + 1
    /\ UNCHANGED <<pc, result, log>>

\* create_index raises KeyError and nothing catches it.
create_index_KeyError_propagates ==
    /\ Request("KeyError")
    /\ pc' = "raised"
    /\ result' = [kind |-> "raised", exc |-> "KeyError"]
    /\ UNCHANGED <<idx_pos, log>>

\* create_index raises KeyError: a warning is logged and the loop continues.
create_index_KeyError ==
    /\ Request("KeyError")
    /\ log' = Append(log, [level |-> "warning", resource |-> CurIndex.resource,
                           name |-> CurIndex.name])
    /\ idx_pos' = idx_pos + 1
    /\ UNCHANGED <<pc, result>>

\* after_duplicate_key without the test of ignore_duplicate_keys: always raise.
after_duplicate_key_always_raises ==
    /\ pc' = "raised"
    /\ result' = [kind |-> "raised", exc |-> "DuplicateKeyError"]
    /\ UNCHANGED idx_pos

\* What follows the logging of a DuplicateKeyError: the loop continues when
\* ignore_duplicate_keys is set, and the error is raised again when it is not.
after_duplicate_key ==
    IF ignore_duplicate_keys
       THEN /\ idx_pos' = idx_pos + 1
            /\ UNCHANGED <<pc, result>>
       ELSE /\ pc' = "raised"
            /\ result' = [kind |-> "raised", exc |-> "DuplicateKeyError"]
            /\ UNCHANGED idx_pos

\* create_index raises DuplicateKeyError: the error is logged.
create_index_DuplicateKeyError ==
    /\ Request("DuplicateKeyError")
    /\ log' = Append(log, [level |-> "exception", resource |-> CurIndex.resource,
                           name |-> CurIndex.name])
    /\ after_duplicate_key

\* Both loops are exhausted: init_indexes returns.
init_indexes_returns ==
    /\ pc = "indexing" /\ ~HasIndex
    /\ pc' = "returned"
    /\ result' = [kind |-> "returned", exc |-> "none"]
    /\ UNCHANGED <<domain, indexVars, notIndexes>>

\* An assembled application whose resources declare their indexes.
InitIdx ==
    /\ pc = "app"
    /\ CORE_APPS = <<>>
    /\ INSTALLED_APPS = <<>>
    /\ settings_DOMAIN = EmptyMap
    /\ has_init_app = {}
    /\ domain \in IndexDomains
    /\ FactoryRest
    /\ ScopeRest
    /\ IndexRest
    /\ OthersRest

NextIdx ==
    \/ \E ignore \in BOOLEAN : init_indexes(ignore)
    \/ create_index
    \/ create_index_KeyError
    \/ create_index_DuplicateKeyError
    \/ init_indexes_returns

SpecIdx == InitIdx /\ [][NextIdx]_vars

\* ------------------------------------------------- init_indexes' properties

\* The (resource, name) of each request made.
RequestedIndexes ==
    [k \in 1..Len(requests) |-> [resource |-> requests[k].resource,
                                 name |-> requests[k].name]]

\* The logger was given an entry of this level for request k.
Logged(level, k) ==
    \E e \in 1..Len(log) :
        log[e] = [level |-> level, resource |-> requests[k].resource,
                  name |-> requests[k].name]

\* The requests made are the declared indexes, in order, up to the loop position.
RequestsFollowPlan ==
    /\ IsPrefix(RequestedIndexes, IndexPlan)
    /\ Len(outcomes) = Len(requests)
    /\ (result.kind = "returned" => RequestedIndexes = IndexPlan)

\* C9: a create_index call that raises DuplicateKeyError is logged; with
\* ignore_duplicate_keys set, init_indexes does not raise, goes on with the
\* next declared index and has requested every declared index when it returns;
\* with ignore_duplicate_keys not set it raises DuplicateKeyError and the
\* failing request is the last one made.
C9_DuplicateKeys ==
    /\ RequestsFollowPlan
    /\ \A k \in 1..Len(outcomes) :
          outcomes[k] = "DuplicateKeyError" =>
             /\ Logged("exception", k)
             /\ ignore_duplicate_keys =>
                   /\ result.kind # "raised"
                   /\ pc = "indexing" => idx_pos > k
             /\ ~ignore_duplicate_keys =>
                   /\ result = [kind |-> "raised", exc |-> "DuplicateKeyError"]
                   /\ k = Len(requests)

\* C9's case with ignore_duplicate_keys set: the call returned after a duplicate
\* key on an index that was not the last one declared.
C9_Witness ==
    /\ ignore_duplicate_keys
    /\ result.kind = "returned"
    /\ \E k \in 1..(Len(outcomes) - 1) : outcomes[k] = "DuplicateKeyError"

\* The other case of C9, ignore_duplicate_keys not set: the call raised on a
\* duplicate key with declared indexes left.
DuplicateKeyRaised ==
    /\ ~ignore_duplicate_keys
    /\ result.kind = "raised"
    /\ Len(requests) < Len(IndexPlan)

\* C10: a create_index call that raises KeyError is logged as a warning and does
\* not end init_indexes, whatever ignore_duplicate_keys is: the loop is at the
\* next declared index, the call raises only for a duplicate key that is not
\* ignored, and when it returns every declared index has been requested.
C10_UnknownResource ==
    /\ IsPrefix(RequestedIndexes, IndexPlan)
    /\ \A k \in 1..Len(outcomes) :
          outcomes[k] = "KeyError" =>
             /\ Logged("warning", k)
             /\ pc = "indexing" => idx_pos > k
             /\ result.kind = "returned" => RequestedIndexes = IndexPlan
             /\ result.kind = "raised" =>
                   /\ ~ignore_duplicate_keys
                   /\ k < Len(outcomes)
                   /\ outcomes[Len(outcomes)] = "DuplicateKeyError"

\* C10's case: with ignore_duplicate_keys not set, the call returned after a
\* KeyError on the first index of a resource that declares two, with requests
\* for that resource's second index and for a later resource.
C10_Witness ==
    /\ ~ignore_duplicate_keys
    /\ result.kind = "returned"
    /\ \E k \in 1..Len(outcomes) :
          /\ outcomes[k] = "KeyError"
          /\ k + 2 <= Len(requests)
          /\ requests[k + 1].resource = requests[k].resource
          /\ requests[k + 2].resource # requests[k].resource

\* The index specification a request was made for, as the configuration held it
\* when init_indexes was called, and the named indexes declared then.
Declared(q) == domainBefore[q.resource].mongo_indexes__init[q.name]
DeclaredIndexes ==
    {x \in [resource : DOMAIN domainBefore,
            name : {IndexNames[i] : i \in 1..Len(IndexNames)}] :
        x.name \in DOMAIN domainBefore[x.resource].mongo_indexes__init}
RequestTarget(k) == [resource |-> requests[k].resource, name |-> requests[k].name]

\* C20: every create_index request carries options with a background entry:
\* True for a bare key list and for a tuple whose options do not set background,
\* the declared value when they set it; the other options and the keys are the
\* declared ones.  One request is made per named index of every resource that
\* declares indexes, none for a resource that declares none.
C20_Background ==
    /\ \A k \in 1..Len(requests) :
          LET q == requests[k]
          IN /\ RequestTarget(k) \in DeclaredIndexes
             /\ q.list_of_keys = Declared(q).keys
             /\ DOMAIN q.index_options = DOMAIN Declared(q).options \cup {"background"}
             /\ \A o \in DOMAIN Declared(q).options :
                    q.index_options[o] = Declared(q).options[o]
             /\ (~Declared(q).isTuple \/ "background" \notin DOMAIN Declared(q).options)
                    => q.index_options["background"] = TRUE
    /\ \A k, h \in 1..Len(requests) : RequestTarget(k) = RequestTarget(h) => k = h
    /\ pc = "returned" =>
           {RequestTarget(k) : k \in 1..Len(requests)} = DeclaredIndexes

\* init_indexes returned after requests for a bare list, for a tuple without
\* background and for a tuple that sets background to False.
C20_Witness ==
    /\ pc = "returned"
    /\ \E k \in 1..Len(requests) :
           ~Declared(requests[k]).isTuple /\ requests[k].index_options["background"]
    /\ \E k \in 1..Len(requests) :
           /\ Declared(requests[k]).isTuple
           /\ "background" \notin DOMAIN Declared(requests[k]).options
           /\ requests[k].index_options["background"]
    /\ \E k \in 1..Len(requests) :
           /\ Declared(requests[k]).isTuple
           /\ "background" \in DOMAIN Declared(requests[k]).options
           /\ ~requests[k].index_options["background"]
    /\ \E r \in DOMAIN domainBefore : domainBefore[r].mongo_indexes__init = EmptyMap

\* ------------------------------------------------------------- get_locale

\* Longest language tag, in tokens.
MaxTagLen == 3

\* A string is a list of tokens: a token is a pair of letters, a digit, a hyphen
\* or an underscore.
AlphaTokens == {"en", "US"}
TagTokens == AlphaTokens \cup {"1", "-", "_"}
Tags == SeqsUpTo(TagTokens, MaxTagLen)

\* The values g.user["language"] may hold: a string, None, or another value that
\* is no string (a number); and the user contexts of a request: no g.user, a user
\* without the key, a user with it.
Languages ==
    {[kind |-> "str", val |-> t] : t \in Tags}
        \cup {[kind |-> "None"], [kind |-> "number"]}
UserContexts ==
    {[kind |-> "absent"], [kind |-> "user", hasLanguage |-> FALSE]}
        \cup {[kind |-> "user", hasLanguage |-> TRUE, language |-> l] : l \in Languages}

\* app.config["DEFAULT_LANGUAGE"]: not set, or a string.
DefaultLanguages ==
    {[isSet |-> FALSE, val |-> <<>>]} \cup {[isSet |-> TRUE, val |-> t] : t \in Tags}

\* str.replace("-", "_").
replace_hyphen(str) == [i \in 1..Len(str) |-> IF str[i] = "-" THEN "_" ELSE str[i]]

\* str.split("_").
RECURSIVE split(_)
split(str) ==
    IF \A i \in 1..Len(str) : str[i] # "_" THEN <<str>>
    ELSE LET i == CHOOSE j \in 1..Len(str) :
                     str[j] = "_" /\ \A h \in 1..(j - 1) : str[h] # "_"
         IN <<SubSeq(str, 1, i - 1)>> \o split(SubSeq(str, i + 1, Len(str)))

\* len, str.isalpha and str.isdigit of a part.
RECURSIVE char_len(_)
char_len(part) ==
    IF part = <<>> THEN 0
    ELSE (IF Head(part) \in AlphaTokens THEN 2 ELSE 1) + char_len(Tail(part))
isalpha(part) == part # <<>> /\ \A i \in 1..Len(part) : part[i] \in AlphaTokens
isdigit(part) == part # <<>> /\ \A i \in 1..Len(part) : part[i] = "1"

\* babel.parse_locale after the language: a script, a territory and a variant are
\* taken off the parts when they have the shape of one.
after_script(parts) ==
    IF parts # <<>> /\ char_len(Head(parts)) = 4 /\ isalpha(Head(parts))
       THEN Tail(parts) ELSE parts
after_territory(parts) ==
    IF parts # <<>> /\ (\/ char_len(Head(parts)) = 2 /\ isalpha(Head(parts))
                        \/ char_len(Head(parts)) = 3 /\ isdigit(Head(parts)))
       THEN Tail(parts) ELSE parts
after_variant(parts) ==
    IF parts # <<>> /\ Head(parts) # <<>>
       /\ (\/ char_len(Head(parts)) = 4 /\ Head(Head(parts)) = "1"
           \/ char_len(Head(parts)) >= 5 /\ Head(Head(parts)) \in AlphaTokens)
       THEN SubSeq(parts, 1, Len(parts) - 1) ELSE parts

\* babel.parse_locale(identifier) raises ValueError: the language is not made of
\* letters, or parts are left over.
parse_locale_raises(identifier) ==
    LET parts == split(identifier)
    IN \/ ~isalpha(Head(parts))
       \/ after_variant(after_territory(after_script(Tail(parts)))) # <<>>

\* app.config.get("DEFAULT_LANGUAGE", "en").
config_default_language(default) == IF default.isSet THEN default.val ELSE <<"en">>

\* user.get("language", app.config.get("DEFAULT_LANGUAGE", "en")) with
\* user = getattr(g, "user", {}).
user_language_of(user, default) ==
    IF user.kind = "user" /\ user.hasLanguage
       THEN user.language
       ELSE [kind |-> "str", val |-> config_default_language(default)]

\* The try block: the language is kept when parse_locale accepts it, and is the
\* default when parse_locale raises ValueError.
language_after_parse(user_language, default) ==
    IF parse_locale_raises(replace_hyphen(user_language))
       THEN config_default_language(default)
       ELSE user_language

\* What get_locale returns or raises; a value without str.replace raises
\* AttributeError in the try block, which catches ValueError only.
get_locale_result(user, default) ==
    LET user_language == user_language_of(user, default)
    IN IF user_language.kind # "str"
          THEN [kind |-> "raised", exc |-> "AttributeError"]
          ELSE [kind |-> "returned",
                val |-> replace_hyphen(language_after_parse(user_language.val, default))]

\* Babel calls the locale selector for the request.
get_locale ==
    /\ pc = "request"
    /\ error.kind = "none"
    /\ locale' = get_locale_result(g_user, DEFAULT_LANGUAGE)
    /\ pc' = "responded"
    /\ UNCHANGED <<g_user, DEFAULT_LANGUAGE, error, response>>
    /\ UNCHANGED <<appSettings, installVars, domain, result, domainBefore>>
    /\ UNCHANGED <<scopeVars, indexVars, configVars>>

\* ------------------------------------------------------ set_error_handlers

\* A status code is None or a number.
NoStatus == [isNone |-> TRUE, val |-> 0]
Status(code) == [isNone |-> FALSE, val |-> code]
StatusCodes == {NoStatus} \cup {Status(c) : c \in {400, 404, 409, 500}}

\* What error.to_dict() gives, and the SuperdeskError instances a view raises.
ErrorFields == {"_status", "_message", "_issues"}
ErrorDicts == PartialMaps(ErrorFields, {"ERR", "text"})
SuperdeskErrors ==
    {[kind |-> "SuperdeskError", status_code |-> c, to_dict |-> d] :
        c \in StatusCodes, d \in ErrorDicts}

\* The AssertionError instances: str(error) is the message, empty for a bare assert.
AssertionMessages == {"", "text", "assert"}
AssertionErrors == {[kind |-> "AssertionError", str |-> m] : m \in AssertionMessages}

\* The status is always 422.
status_code_or_422_always(status_code) == 422

\* error.status_code or 422: None and 0 are false.
status_code_or_422(status_code) ==
    IF status_code.isNone \/ status_code.val = 0 THEN 422 ELSE status_code.val

\* send_response(None, (body, None, None, status)).
send_response(body, status) == [kind |-> "sent", body |-> body, status |-> status]

\* The handler of SuperdeskError.
client_error_handler ==
    /\ pc = "request"
    /\ error.kind = "SuperdeskError"
    /\ LET error_dict ==
               DictUpdate(error.to_dict,
                          [k \in {"internal_error"} |-> error.status_code])
           status_code == status_code_or_422(error.status_code)
       IN response' = send_response(error_dict, status_code)
    /\ pc' = "responded"
    /\ UNCHANGED <<g_user, DEFAULT_LANGUAGE, error, locale>>
    /\ UNCHANGED <<appSettings, installVars, domain, result, domainBefore>>
    /\ UNCHANGED <<scopeVars, indexVars, configVars>>

\* The message is sent as it is, empty or not.
assert_error_text_verbatim(str) == str

\* str(error) if str(error) else "assert".
assert_error_text(str) == IF str # "" THEN str ELSE "assert"

\* The handler of AssertionError.
assert_error_handler ==
    /\ pc = "request"
    /\ error.kind = "AssertionError"
    /\ response' =
           send_response([code |-> 400, error |-> assert_error_text(error.str)], 400)
    /\ pc' = "responded"
    /\ UNCHANGED <<g_user, DEFAULT_LANGUAGE, error, locale>>
    /\ UNCHANGED <<appSettings, installVars, domain, result, domainBefore>>
    /\ UNCHANGED <<scopeVars, indexVars, configVars>>

\* A request on an assembled application: either it runs to the locale selector
\* with some user context, or its view raised an error a handler is registered for.
InitRequest ==
    /\ pc = "request"
    /\ \/ /\ g_user \in UserContexts
          /\ DEFAULT_LANGUAGE \in DefaultLanguages
          /\ error = [kind |-> "none"]
       \/ /\ g_user = [kind |-> "absent"]
          /\ DEFAULT_LANGUAGE = [isSet |-> FALSE, val |-> <<>>]
          /\ error \in SuperdeskErrors \cup AssertionErrors
    /\ locale = [kind |-> "none"]
    /\ response = [kind |-> "none"]
    /\ CORE_APPS = <<>>
    /\ INSTALLED_APPS = <<>>
    /\ settings_DOMAIN = EmptyMap
    /\ has_init_app = {}
    /\ FactoryRest
    /\ domain = EmptyMap
    /\ ScopeRest
    /\ IndexRest
    /\ ConfigRest

NextRequest ==
    \/ get_locale
    \/ client_error_handler
    \/ assert_error_handler

SpecRequest == InitRequest /\ [][NextRequest]_vars

\* ------------------------------------------- the request handlers' properties

\* The language the request's user context holds, if it holds one.
HasLanguage == g_user.kind = "user" /\ g_user.hasLanguage
LocaleResolved == pc = "responded" /\ error.kind = "none"

\* The configured default language with its hyphens replaced.
NormalizedDefault == replace_hyphen(config_default_language(DEFAULT_LANGUAGE))

\* A user whose language is None: the selector raises.
NullLanguageRaises ==
    /\ LocaleResolved
    /\ HasLanguage /\ g_user.language.kind = "None"
    /\ locale = [kind |-> "raised", exc |-> "AttributeError"]

\* C11: locale resolution never raises, whatever the request's user context and
\* language preference are (no user, a user without language, a language that is
\* null or not a string, a malformed tag, a valid tag).
C11_NeverRaises == LocaleResolved => locale.kind = "returned"

\* C12: get_locale returns the configured default language (hyphens replaced, as
\* every returned tag) when the user's language is absent or is not a parseable
\* locale tag, and the user's language with every hyphen replaced by an
\* underscore when it is a valid tag.
C12_Fallback ==
    LocaleResolved =>
        /\ locale.kind = "returned"
        /\ IF /\ HasLanguage
              /\ g_user.language.kind = "str"
              /\ ~parse_locale_raises(replace_hyphen(g_user.language.val))
              THEN locale.val = replace_hyphen(g_user.language.val)
              ELSE locale.val = NormalizedDefault

\* The same for the languages that are strings, where the selector returns.
FallbackForStrings ==
    (LocaleResolved /\ (HasLanguage => g_user.language.kind = "str")) =>
        /\ locale.kind = "returned"
        /\ IF HasLanguage /\ ~parse_locale_raises(replace_hyphen(g_user.language.val))
              THEN locale.val = replace_hyphen(g_user.language.val)
              ELSE locale.val = NormalizedDefault

\* The default is returned with its hyphens replaced, not as configured.
DefaultIsNormalized ==
    /\ LocaleResolved
    /\ ~HasLanguage
    /\ locale.kind = "returned"
    /\ locale.val # config_default_language(DEFAULT_LANGUAGE)

\* C15: the handler of declared domain errors responds with the error's own
\* status code, or 422 when the error has none, and the body is the error's
\* serialized fields plus internal_error, the error's own status code.
C15_ClientError ==
    (pc = "responded" /\ error.kind = "SuperdeskError") =>
        /\ response.kind = "sent"
        /\ response.status =
               (IF error.status_code.isNone THEN 422 ELSE error.status_code.val)
        /\ DOMAIN response.body = DOMAIN error.to_dict \cup {"internal_error"}
        /\ response.body["internal_error"] = error.status_code
        /\ \A k \in DOMAIN error.to_dict : response.body[k] = error.to_dict[k]

\* An error with a status code and fields has been answered.
C15_Witness ==
    /\ pc = "responded"
    /\ error.kind = "SuperdeskError"
    /\ ~error.status_code.isNone
    /\ error.to_dict # EmptyMap
    /\ response.kind = "sent"
    /\ response.status = error.status_code.val

\* An error without status code has been answered with 422.
NoStatusGives422 ==
    /\ pc = "responded"
    /\ error.kind = "SuperdeskError"
    /\ error.status_code.isNone
    /\ response.kind = "sent"
    /\ response.status = 422
    /\ response.body["internal_error"] = NoStatus

\* C16: the handler of assertion failures always responds with status 400 and
\* body code 400, the error being the assertion's message when it is not empty
\* and "assert" when it is.
C16_AssertError ==
    (pc = "responded" /\ error.kind = "AssertionError") =>
        /\ response.kind = "sent"
        /\ response.status = 400
        /\ DOMAIN response.body = {"code", "error"}
        /\ response.body.code = 400
        /\ error.str # "" => response.body.error = error.str
        /\ error.str = "" => response.body.error = "assert"

\* A bare assert has been answered.
C16_Witness ==
    /\ pc = "responded"
    /\ error.kind = "AssertionError"
    /\ error.str = ""
    /\ response.kind = "sent"
    /\ response.body.error = "assert"

\* ------------------------------------- get_app: the configuration, the storage

\* Configuration names: upper-case ones, and a lower-case one that from_object
\* does not take.
ConfigKeys == {"DOMAIN", "X", "x"}
LowerKeys == {"x"}
ConfigValues == {"a", "b"}
isupper(key) == key \notin LowerKeys

\* The attributes of a module or object, and the items of a mapping.
Namespaces == PartialMaps(ConfigKeys, ConfigValues)

\* The config_object argument: None or an object with attributes.
ConfigObjects == {[kind |-> "None"]} \cup {[kind |-> "object", attrs |-> n] : n \in Namespaces}

\* The config argument: None, a mapping, or an object with attributes.
Configs ==
    {[kind |-> "None"]}
        \cup {[kind |-> "mapping", items |-> n] : n \in Namespaces}
        \cup {[kind |-> "object", attrs |-> n] : n \in Namespaces}

\* flask.Config.from_object(obj): the upper-case attributes of obj are set.
from_object(d, attrs) ==
    DictUpdate(d, [k \in {h \in DOMAIN attrs : isupper(h)} |-> attrs[k]])

\* The three setdefault calls after the defaults are loaded.
with_setdefaults(d) ==
    setdefault(setdefault(setdefault(d, "APP_ABSPATH", "SUPERDESK_PATH"),
                          "DOMAIN", "{}"),
               "SOURCES", "{}")

\* if config_object: app_config.from_object(config_object).
with_config_object(d, obj) ==
    IF obj.kind = "object" THEN from_object(d, obj.attrs) ELSE d

\* The override is not applied.
with_config_ignored(d, cfg) == d

\* app_config.update(config or {}); a config that is no mapping makes update
\* raise TypeError, and is loaded with from_object.
with_config(d, cfg) ==
    CASE cfg.kind = "None" -> d
      [] cfg.kind = "mapping" -> DictUpdate(d, cfg.items)
      [] cfg.kind = "object" -> from_object(d, cfg.attrs)

\* The configuration get_app resolves.
resolved_config(defaults, obj, cfg) ==
    with_config(
        with_config_object(with_setdefaults(from_object(EmptyMap, defaults)), obj),
        cfg)

\* get_app, up to the configuration it hands to the application.
resolve_config ==
    /\ pc = "config"
    /\ app_config' = resolved_config(base_defaults, config_object, config)
    /\ pc' = "configured"
    /\ UNCHANGED <<base_defaults, config_object, config, MEDIA_STORAGE_PROVIDER,
                   use_provider_config, media_storage>>
    /\ UNCHANGED <<appSettings, installVars, domain, result, domainBefore>>
    /\ UNCHANGED <<scopeVars, indexVars, requestVars>>

\* Classes: whether issubclass(klass, MediaStorage) holds.
Class(name, extends) == [name |-> name, extends |-> extends]
ProxyMediaStorage == Class("ProxyMediaStorage", TRUE)
issubclass_MediaStorage(klass) == klass.extends

\* What a module attribute may be: a class extending MediaStorage, MediaStorage
\* itself, another class, something that is no class, or nothing.
ModuleAttributes ==
    {[kind |-> "class", klass |-> Class("AmazonMediaStorage", TRUE)],
     [kind |-> "class", klass |-> Class("MediaStorage", TRUE)],
     [kind |-> "class", klass |-> Class("dict", FALSE)],
     [kind |-> "value"],
     [kind |-> "missing"]}

\* app_config.get("MEDIA_STORAGE_PROVIDER"): not set, the empty string, a value
\* that is no string, a string without a dot, or a dotted path whose module can
\* be imported or not.
Providers ==
    {[kind |-> "unset"], [kind |-> "empty"], [kind |-> "object"], [kind |-> "nodot"]}
        \cup {[kind |-> "dotted", importable |-> i, attr |-> a] :
                  i \in BOOLEAN, a \in ModuleAttributes}
truthy(provider) == provider.kind \notin {"unset", "empty"}
isinstance_str(provider) == provider.kind \in {"nodot", "dotted"}

Returned(klass) == [kind |-> "returned", klass |-> klass]
Raised(exc) == [kind |-> "raised", exc |-> exc]

\* The class is returned without asking whether it extends MediaStorage.
checked_class_unchecked(klass) == Returned(klass)

\* if not issubclass(klass, MediaStorage): raise SystemExit(...); return klass.
checked_class(klass) ==
    IF ~issubclass_MediaStorage(klass) THEN Raised("SystemExit") ELSE Returned(klass)

\* rsplit and the unpacking, import_module, getattr, issubclass.
load_provider(provider) ==
    CASE provider.kind = "nodot" -> Raised("ValueError")
      [] ~provider.importable -> Raised("ImportError")
      [] provider.attr.kind = "missing" -> Raised("AttributeError")
      [] provider.attr.kind = "value" -> Raised("TypeError")
      [] OTHER -> checked_class(provider.attr.klass)

get_media_storage_class_result(provider, use_provider) ==
    IF use_provider /\ truthy(provider) /\ isinstance_str(provider)
       THEN load_provider(provider)
       ELSE Returned(ProxyMediaStorage)

get_media_storage_class ==
    /\ pc = "configured"
    /\ media_storage' =
           get_media_storage_class_result(MEDIA_STORAGE_PROVIDER, use_provider_config)
    /\ pc' = "selected"
    /\ UNCHANGED <<base_defaults, config_object, config, app_config,
                   MEDIA_STORAGE_PROVIDER, use_provider_config>>
    /\ UNCHANGED <<appSettings, installVars, domain, result, domainBefore>>
    /\ UNCHANGED <<scopeVars, indexVars, requestVars>>

\* A get_app call with its arguments and the defaults; either the layers vary, or
\* the storage provider the configuration names.
InitConfig ==
    /\ pc = "config"
    /\ \/ /\ base_defaults \in Namespaces
          /\ config_object \in ConfigObjects
          /\ config \in Configs
          /\ MEDIA_STORAGE_PROVIDER = [kind |-> "unset"]
          /\ use_provider_config = TRUE
       \/ /\ base_defaults = EmptyMap
          /\ config_object = [kind |-> "None"]
          /\ config = [kind |-> "None"]
          /\ MEDIA_STORAGE_PROVIDER \in Providers
          /\ use_provider_config \in BOOLEAN
    /\ app_config = EmptyMap
    /\ media_storage = [kind |-> "none"]
    /\ CORE_APPS = <<>>
    /\ INSTALLED_APPS = <<>>
    /\ settings_DOMAIN = EmptyMap
    /\ has_init_app = {}
    /\ FactoryRest
    /\ domain = EmptyMap
    /\ ScopeRest
    /\ IndexRest
    /\ RequestRest

NextConfig ==
    \/ resolve_config
    \/ get_media_storage_class

SpecConfig == InitConfig /\ [][NextConfig]_vars

\* --------------------------------------------- the configuration's properties

\* The keys a layer sets: the upper-case attributes of an object, every item of
\* a mapping.
SetByDefaults == {k \in DOMAIN base_defaults : isupper(k)}
SetByObject ==
    IF config_object.kind = "object"
       THEN {k \in DOMAIN config_object.attrs : isupper(k)} ELSE {}
SetByConfig ==
    CASE config.kind = "None" -> {}
      [] config.kind = "mapping" -> DOMAIN config.items
      [] config.kind = "object" -> {k \in DOMAIN config.attrs : isupper(k)}
ConfigValue(k) == IF config.kind = "mapping" THEN config.items[k] ELSE config.attrs[k]
Configured == pc \in {"configured", "selected"}

\* C13: a key set by the base defaults, the config object and the override holds
\* the override's value; the layers apply in the order base defaults, config
\* object, override, and the latest layer that sets a key wins.
C13_Layers ==
    Configured =>
        \A k \in ConfigKeys :
            /\ k \in SetByConfig => app_config[k] = ConfigValue(k)
            /\ (k \in SetByObject \ SetByConfig) =>
                   app_config[k] = config_object.attrs[k]
            /\ (k \in SetByDefaults \ (SetByObject \cup SetByConfig)) =>
                   app_config[k] = base_defaults[k]
            /\ k \in DOMAIN app_config =>
                   \/ k \in SetByDefaults \cup SetByObject \cup SetByConfig
                   \/ k = "DOMAIN" /\ app_config[k] = "{}"

\* A key set by all three layers, with three values that are not all the same.
C13_Witness ==
    /\ Configured
    /\ \E k \in SetByDefaults \cap SetByObject \cap SetByConfig :
           /\ base_defaults[k] # ConfigValue(k)
           /\ config_object.attrs[k] # ConfigValue(k)
           /\ app_config[k] = ConfigValue(k)

\* An override that is an object, loaded through the TypeError branch.
ObjectOverride ==
    /\ Configured
    /\ config.kind = "object"
    /\ \E k \in SetByObject \cap SetByConfig :
           config_object.attrs[k] # config.attrs[k] /\ app_config[k] = config.attrs[k]

\* C14: get_media_storage_class never returns a class that does not extend
\* MediaStorage; with the provider configuration allowed and a dotted path naming
\* a class that does not extend MediaStorage it ends in SystemExit; with the
\* provider unset or use_provider_config false it returns ProxyMediaStorage.
C14_StorageClass ==
    pc = "selected" =>
        /\ media_storage.kind = "returned" =>
               issubclass_MediaStorage(media_storage.klass)
        /\ (/\ use_provider_config
            /\ MEDIA_STORAGE_PROVIDER.kind = "dotted"
            /\ MEDIA_STORAGE_PROVIDER.importable
            /\ MEDIA_STORAGE_PROVIDER.attr.kind = "class"
            /\ ~MEDIA_STORAGE_PROVIDER.attr.klass.extends)
               => media_storage = Raised("SystemExit")
        /\ (~use_provider_config \/ MEDIA_STORAGE_PROVIDER.kind = "unset")
               => media_storage = Returned(ProxyMediaStorage)

\* A dotted path naming a class that does not extend MediaStorage has ended the
\* startup.
C14_Witness ==
    /\ pc = "selected"
    /\ use_provider_config
    /\ MEDIA_STORAGE_PROVIDER.kind = "dotted"
    /\ MEDIA_STORAGE_PROVIDER.attr.kind = "class"
    /\ media_storage = Raised("SystemExit")

\* A provider class has been returned, and the proxy for a provider that is set
\* but not allowed.
ProviderReturned ==
    /\ pc = "selected"
    /\ media_storage.kind = "returned"
    /\ media_storage.klass # ProxyMediaStorage
ProviderNotAllowed ==
    /\ pc = "selected"
    /\ ~use_provider_config
    /\ MEDIA_STORAGE_PROVIDER.kind = "dotted"
    /\ media_storage = Returned(ProxyMediaStorage)

\* A process that has not called get_app: its settings name the modules and the
\* configured resources.
Init ==
    /\ pc = "idle"
    /\ CORE_APPS \in SeqsUpTo(Modules, MaxApps)
    /\ INSTALLED_APPS \in SeqsUpTo(Modules, MaxApps)
    /\ settings_DOMAIN \in PartialMaps(Resources, Defs)
    /\ has_init_app \in SUBSET Modules
    /\ domain = EmptyMap
    /\ FactoryRest
    /\ ScopeRest
    /\ IndexRest
    /\ OthersRest

Next ==
    \/ get_app
    \/ install_app_return
    \/ install_app_add
    \/ import_module
    \/ import_module_raises
    \/ init_app
    \/ init_app_raises
    \/ core_apps_done
    \/ merge_and_return

Spec == Init /\ [][Next]_vars

=============================================================================
